---- MODULE Spec2Model ----
(***************************************************************************)
(* EasyLog (easylogz/logger_module.py): the LoggerManager singleton, its   *)
(* explicit and lazy initialization, the directory fallback chain, the     *)
(* sink (handler) set of the root logger and the level resolver.           *)
(*                                                                         *)
(* Strings that the code inspects character by character (level names)    *)
(* are sequences of one-character strings; paths are pathlib `parts`       *)
(* sequences (<<"/", "srv", "app">>); an optional value is <<>> (None) or  *)
(* <<v>>.                                                                  *)
(***************************************************************************)
EXTENDS Integers, Sequences, FiniteSets, TLC

\* ------------------------------------------------------------------ bounds
NumThreads == 2
MaxCalls == 2

Threads == 1..NumThreads
NoThread == 0

\* ------------------------------------------------- logging level constants
NOTSET == 0
DEBUG == 10
INFO == 20
WARNING == 30
ERROR == 40
CRITICAL == 50

\* ------------------------------------------------------------ str helpers
Lowers == <<"a","b","c","d","e","f","g","h","i","j","k","l","m",
            "n","o","p","q","r","s","t","u","v","w","x","y","z">>
Uppers == <<"A","B","C","D","E","F","G","H","I","J","K","L","M",
            "N","O","P","Q","R","S","T","U","V","W","X","Y","Z">>

\* str.upper() on one character: letters map to their capital, the rest
\* (capitals, digits, blanks) map to themselves.
UpperChar(c) ==
    IF \E i \in 1..Len(Lowers) : Lowers[i] = c
    THEN Uppers[CHOOSE i \in 1..Len(Lowers) : Lowers[i] = c]
    ELSE c

StrUpper(s) == [i \in 1..Len(s) |-> UpperChar(s[i])]

S_DEBUG == <<"D","E","B","U","G">>
S_INFO == <<"I","N","F","O">>
S_WARNING == <<"W","A","R","N","I","N","G">>
S_ERROR == <<"E","R","R","O","R">>
S_CRITICAL == <<"C","R","I","T","I","C","A","L">>

\* LOG_LEVELS: the dict's keys and its lookup.
LevelKeys == {S_DEBUG, S_INFO, S_WARNING, S_ERROR, S_CRITICAL}

LOG_LEVELS(k) ==
    CASE k = S_DEBUG -> DEBUG
      [] k = S_INFO -> INFO
      [] k = S_WARNING -> WARNING
      [] k = S_ERROR -> ERROR
      [] k = S_CRITICAL -> CRITICAL

\* _get_log_level: (level, number of print() diagnostics).
GetLogLevel_NoUpper(level_str) ==
    IF level_str \in LevelKeys
    THEN [level |-> LOG_LEVELS(level_str), diag |-> 0]
    ELSE [level |-> INFO, diag |-> 1]

GetLogLevel(level_str) ==
    IF StrUpper(level_str) \in LevelKeys
    THEN [level |-> LOG_LEVELS(StrUpper(level_str)), diag |-> 0]
    ELSE [level |-> INFO, diag |-> 1]

\* ----------------------------------------------------------- path helpers
NoneV == <<>>
Some(v) == <<v>>

IsAbsolute(p) == Len(p) > 0 /\ p[1] = "/"

\* pathlib's `a / b`.
Join(a, b) == IF IsAbsolute(b) THEN b ELSE a \o b

\* Path.name
PathName(p) == IF Len(p) > 1 THEN p[Len(p)] ELSE ""

\* The environment: Path(__file__).parent.parent.resolve(), Path.cwd(),
\* Path.home(), tempfile.gettempdir().
ModuleRoot == <<"/", "site">>
Cwd == <<"/", "work">>
Home == <<"/", "home">>
TempDir == <<"/", "tmp">>

RECURSIVE Collapse(_, _)
Collapse(done, rest) ==
    IF rest = <<>> THEN done
    ELSE IF rest[1] = ".."
         THEN Collapse(IF Len(done) > 1 THEN SubSeq(done, 1, Len(done) - 1) ELSE done,
                       Tail(rest))
         ELSE Collapse(Append(done, rest[1]), Tail(rest))

\* Path.resolve(): made absolute against the working directory, ".."
\* components collapsed (symbolic links are not part of the model).
Resolve(p) ==
    IF IsAbsolute(p) THEN Collapse(<<"/">>, Tail(p))
    ELSE Collapse(<<"/">>, Tail(Cwd \o p))

\* _resolve_project_root
ResolveProjectRoot(project_root) ==
    IF project_root = NoneV THEN ModuleRoot ELSE Resolve(project_root[1])

\* _resolve_log_dir
ResolveLogDir_NoJoin(log_dir, project_root) ==
    IF log_dir = NoneV THEN project_root \o <<"logs">>
    ELSE log_dir[1]

ResolveLogDir(log_dir, project_root) ==
    IF log_dir = NoneV THEN project_root \o <<"logs">>
    ELSE IF ~IsAbsolute(log_dir[1]) THEN Join(project_root, log_dir[1])
    ELSE log_dir[1]

\* dirs_to_try of _create_log_directory, and the last resort.
DirsToTry(log_dir, project_root) ==
    << log_dir,
       project_root \o <<"logs">>,
       Home \o <<".logs", PathName(project_root)>>,
       TempDir \o <<PathName(project_root), "logs">> >>

FallbackTemp == TempDir \o <<"app_logs">>

\* The for loop over dirs_to_try: `bad` is the set of paths whose mkdir
\* raises OSError. Result: the paths tried so far and the index of the
\* candidate that succeeded (0: none did).
RECURSIVE TryDirs(_, _, _)
TryDirs(dirs, i, bad) ==
    IF i > Len(dirs) THEN [tried |-> dirs, hit |-> 0]
    ELSE IF dirs[i] \notin bad THEN [tried |-> SubSeq(dirs, 1, i), hit |-> i]
    ELSE TryDirs(dirs, i + 1, bad)

\* _create_log_directory: [raised, dir (resolved), tried, hit, msg, bad].
\* hit = 5 stands for the last resort; msg lists the paths of the error;
\* bad is the environment the call met.
CreateLogDirectory_NoLastResort(log_dir, project_root, bad) ==
    LET dirs == DirsToTry(log_dir, project_root)
        loop == TryDirs(dirs, 1, bad)
    IN  IF loop.hit > 0
        THEN [raised |-> FALSE, dir |-> Resolve(dirs[loop.hit]),
              tried |-> loop.tried, hit |-> loop.hit, msg |-> <<>>, bad |-> bad]
        ELSE [raised |-> TRUE, dir |-> <<>>, tried |-> dirs,
              hit |-> 0, msg |-> dirs, bad |-> bad]

CreateLogDirectory_Last(log_dir, project_root, bad) ==
    LET dirs == DirsToTry(log_dir, project_root)
        ok == {i \in 1..Len(dirs) : dirs[i] \notin bad}
        last == CHOOSE i \in ok : \A j \in ok : j <= i
    IN  IF ok # {}
        THEN [raised |-> FALSE, dir |-> Resolve(dirs[last]),
              tried |-> dirs, hit |-> last, msg |-> <<>>, bad |-> bad]
        ELSE IF FallbackTemp \notin bad
        THEN [raised |-> FALSE, dir |-> Resolve(FallbackTemp),
              tried |-> Append(dirs, FallbackTemp), hit |-> Len(dirs) + 1,
              msg |-> <<>>, bad |-> bad]
        ELSE [raised |-> TRUE, dir |-> <<>>,
              tried |-> Append(dirs, FallbackTemp), hit |-> 0,
              msg |-> Append(dirs, FallbackTemp), bad |-> bad]

CreateLogDirectory(log_dir, project_root, bad) ==
    LET dirs == DirsToTry(log_dir, project_root)
        loop == TryDirs(dirs, 1, bad)
    IN  IF loop.hit > 0
        THEN [raised |-> FALSE, dir |-> Resolve(dirs[loop.hit]),
              tried |-> loop.tried, hit |-> loop.hit, msg |-> <<>>, bad |-> bad]
        ELSE IF FallbackTemp \notin bad
        THEN [raised |-> FALSE, dir |-> Resolve(FallbackTemp),
              tried |-> Append(dirs, FallbackTemp), hit |-> Len(dirs) + 1,
              msg |-> <<>>, bad |-> bad]
        ELSE [raised |-> TRUE, dir |-> <<>>,
              tried |-> Append(dirs, FallbackTemp), hit |-> 0,
              msg |-> Append(dirs, FallbackTemp), bad |-> bad]

\* ---------------------------------------------------------- configuration
FMT == "%(asctime)s - %(name)s - %(levelname)s - %(message)s"
DATEFMT == "%Y-%m-%d %H:%M:%S"

\* DEFAULT_CONFIG
DefaultConfig ==
    [ log_level |-> <<"I","N","F","O">>,
      max_bytes |-> 10485760,
      backup_count |-> 5,
      console_output |-> TRUE,
      log_filename |-> "app.log",
      project_root |-> NoneV,
      log_dir |-> NoneV,
      format |-> FMT,
      date_format |-> DATEFMT,
      configure_uvicorn_logging_runtime |-> FALSE,
      uvicorn_log_level_runtime |-> <<"I","N","F","O">> ]

\* dict.update
Update(d, other) ==
    [k \in (DOMAIN d) \cup (DOMAIN other) |->
        IF k \in DOMAIN other THEN other[k] ELSE d[k]]

EmptyDict == [k \in {} |-> TRUE]

\* The (config, kwargs) pairs the callers of initialize pass: nothing; a
\* relative override with a ".." and a threshold above WARNING, console off;
\* an absolute override under an explicit project root, no file sink, the
\* adapter on, templates of the caller's, a level that kwargs override.
InitArgs ==
    { [config |-> EmptyDict, kwargs |-> EmptyDict],
      [config |-> [log_level |-> <<"e","r","r","o","r">>, console_output |-> FALSE,
                   log_dir |-> Some(<<"..", "shared">>)],
       kwargs |-> EmptyDict],
      [config |-> [log_dir |-> Some(<<"/", "var", "log">>),
                   project_root |-> Some(<<"/", "srv", "app">>),
                   log_filename |-> "",
                   format |-> "%(levelname)s %(message)s",
                   date_format |-> "%H:%M:%S",
                   log_level |-> <<"w","a","r","n">>,
                   configure_uvicorn_logging_runtime |-> TRUE],
       kwargs |-> [log_level |-> <<"D","e","b","u","g">>]] }

\* The module's DEFAULT_CONFIG object, a dict and so mutable.
VARIABLE defaults

\* initialize, lines 77-80: a copy of the defaults, then config, then kwargs.
MergeConfig_ConfigWins(config, kwargs) ==
    Update(Update(defaults, kwargs), config)

MergeConfig(config, kwargs) ==
    Update(Update(defaults, config), kwargs)

LoggerNames == {"app", "uvicorn.access"}
UvicornNames == {"uvicorn", "uvicorn.error", "uvicorn.access"}

\* lines 279-283: the order in which the adapter goes through them.
UvicornOrder == <<"uvicorn", "uvicorn.error", "uvicorn.access">>

\* ------------------------------------------------------------------ state
VARIABLES
    instance,      \* LoggerManager._instance: 0 (None) or the object's id
    nInstances,    \* objects created by super().__new__ so far
    lock,          \* LoggerManager._lock: 0 (free) or the holding thread
    initialized,   \* _initialized
    final_config,  \* _final_config: NoneV or Some(dict)
    fcOwner,       \* the thread whose local dict is the _final_config object
    log_dir,       \* self.log_dir: NoneV (attribute unset) or Some(path)
    formatter,     \* self._formatter: NoneV or Some([fmt, datefmt])
    rootLevel,     \* the root logger's level
    handlers,      \* the root logger's handlers
    closed,        \* the handlers close() was called on
    uv,            \* the uvicorn loggers: name -> [handlers, level, propagate]
    pc,            \* each thread's position
    op,            \* each thread's current (or last) operation
    arg,           \* the name its get_logger call asks for
    args,          \* the (config, kwargs) of its initialize call until merged
    cfg,           \* each thread's local config dict
    lvl,           \* each thread's local log_level
    ret,           \* how the thread's last call ended
    retval,        \* what it returned
    sawInit,       \* the value of _initialized the call read first
    dirRes,        \* the call's _create_log_directory result
    sinkRes,       \* what the call's sink constructions met: file, console
    warned,        \* where the call's "already initialized" warning went
    setups,        \* completed runs of _setup_logging_internal
    lastHit,       \* the candidate the last _create_log_directory returned
    ncalls,        \* calls started
    fn             \* the last call of a helper made on its own: input and output

classVars == <<instance, nInstances, defaults>>
attrVars == <<final_config, log_dir, formatter>>
rootVars == <<rootLevel, handlers, closed>>
mgrVars == <<initialized, final_config, fcOwner, log_dir, formatter, rootLevel,
             handlers, closed, uv>>
localVars == <<cfg, lvl>>
callVars == <<op, arg, args, retval, sawInit, warned>>
ghostVars == <<setups, lastHit, ncalls, fn>>
vars == <<defaults, instance, nInstances, lock, initialized, final_config, fcOwner, log_dir,
          formatter, rootLevel, handlers, closed, uv, pc, op, arg, args, cfg, lvl, ret,
          retval, sawInit, dirRes, sinkRes, warned, setups, lastHit, ncalls, fn>>

NoCall == [op |-> "none"]

NoDirRes ==
    [raised |-> FALSE, dir |-> <<>>, tried |-> <<>>, hit |-> 0, msg |-> <<>>, bad |-> {}]

\* initialize() called with nothing.
NoArgs == [config |-> EmptyDict, kwargs |-> EmptyDict]

\* No sink construction attempted yet.
NoSinkRes == [file |-> "unset", console |-> "unset"]

\* A sink some other library attached to the root before the manager ran.
ForeignHandler ==
    [owner |-> NoThread, kind |-> "foreign", level |-> NOTSET, dir |-> <<>>, temp |-> FALSE]

\* The class is defined (lines 51-54) and the module's own singleton may be
\* constructed (line 435); the root logger is Python's: level WARNING.
Init ==
    /\ instance \in {0, 1}
    /\ nInstances = instance
    /\ defaults = DefaultConfig
    /\ lock = NoThread
    /\ initialized = FALSE
    /\ final_config = NoneV
    /\ fcOwner = NoThread
    /\ log_dir = NoneV
    /\ formatter = NoneV
    /\ rootLevel = WARNING
    /\ handlers \in {{}, {ForeignHandler}}
    /\ closed = {}
    /\ uv = [n \in UvicornNames |-> [handlers |-> {}, level |-> NOTSET, propagate |-> TRUE]]
    /\ pc = [t \in Threads |-> "idle"]
    /\ op = [t \in Threads |-> "none"]
    /\ arg = [t \in Threads |-> ""]
    /\ args = [t \in Threads |-> NoArgs]
    /\ cfg = [t \in Threads |-> DefaultConfig]
    /\ lvl = [t \in Threads |-> INFO]
    /\ ret = [t \in Threads |-> "none"]
    /\ retval = [t \in Threads |-> <<>>]
    /\ sawInit = [t \in Threads |-> FALSE]
    /\ dirRes = [t \in Threads |-> NoDirRes]
    /\ sinkRes = [t \in Threads |-> NoSinkRes]
    /\ warned = [t \in Threads |-> {}]
    /\ setups = 0
    /\ lastHit = 0
    /\ ncalls = 0
    /\ fn = NoCall

\* A call starts: the thread is between calls and the budget is not spent.
CanCall(t) == pc[t] = "idle" /\ ncalls < MaxCalls

\* A starting call forgets the thread's record of its last call.
StartCall(t, name, a) ==
    /\ op' = [op EXCEPT ![t] = name]
    /\ arg' = [arg EXCEPT ![t] = a]
    /\ ret' = [ret EXCEPT ![t] = "running"]
    /\ retval' = [retval EXCEPT ![t] = <<>>]
    /\ dirRes' = [dirRes EXCEPT ![t] = NoDirRes]
    /\ sinkRes' = [sinkRes EXCEPT ![t] = NoSinkRes]
    /\ sawInit' = [sawInit EXCEPT ![t] = initialized]
    /\ ncalls' = ncalls + 1

\* A call ends: its local dict and level are gone, so the stored
\* _final_config is no thread's local dict any more.
EndLocals(t) ==
    /\ cfg' = [cfg EXCEPT ![t] = DefaultConfig]
    /\ lvl' = [lvl EXCEPT ![t] = INFO]
    /\ fcOwner' = IF fcOwner = t THEN NoThread ELSE fcOwner

\* ----------------------------------------------------- LoggerManager.__new__
\* line 57: the unlocked check.
NewCheck(t) ==
    /\ CanCall(t)
    /\ StartCall(t, "new", "")
    /\ UNCHANGED args
    /\ pc' = [pc EXCEPT ![t] = IF instance = 0 THEN "new_lock" ELSE "new_ret"]
    /\ UNCHANGED <<classVars, lock, mgrVars, localVars, warned, setups, lastHit, fn>>

\* line 58: with cls._lock
NewLock(t) ==
    /\ pc[t] = "new_lock"
    /\ lock = NoThread
    /\ lock' = t
    /\ pc' = [pc EXCEPT ![t] = "new_recheck"]
    /\ UNCHANGED <<classVars, mgrVars, localVars, callVars, ret, dirRes, sinkRes, ghostVars>>

\* line 60: the check repeated inside the lock.
NewMustCreate_NoRecheck == TRUE

NewMustCreate == instance = 0

\* lines 60-61
NewCreate(t) ==
    /\ pc[t] = "new_recheck"
    /\ IF NewMustCreate
       THEN /\ instance' = nInstances + 1
            /\ nInstances' = nInstances + 1
       ELSE UNCHANGED <<instance, nInstances>>
    /\ pc' = [pc EXCEPT ![t] = "new_unlock"]
    /\ UNCHANGED <<defaults, lock, mgrVars, localVars, callVars, ret, dirRes, sinkRes,
                   ghostVars>>

\* the end of the with block
NewUnlock(t) ==
    /\ pc[t] = "new_unlock"
    /\ lock' = NoThread
    /\ pc' = [pc EXCEPT ![t] = "new_ret"]
    /\ UNCHANGED <<classVars, mgrVars, localVars, callVars, ret, dirRes, sinkRes, ghostVars>>

\* line 62: return cls._instance
NewReturn(t) ==
    /\ pc[t] = "new_ret"
    /\ ret' = [ret EXCEPT ![t] = "ok"]
    /\ retval' = [retval EXCEPT ![t] = <<instance>>]
    /\ pc' = [pc EXCEPT ![t] = "idle"]
    /\ UNCHANGED <<classVars, lock, mgrVars, localVars, op, arg, args, sawInit, warned,
                   dirRes, sinkRes, ghostVars>>

\* ------------------------------------------------------------ the logging
\* Where a record of level lv logged on the root logger goes
\* (Logger.warning -> isEnabledFor -> callHandlers): "stdout" for a console
\* sink, "file" for a file sink, "stderr" for logging.lastResort, which
\* serves WARNING and above when the root has no handler at all.
Destination(h) ==
    CASE h.kind = "console" -> "stdout"
      [] h.kind = "file" -> "file"
      [] OTHER -> "foreign"

Emit_Unfiltered(lv) ==
    IF handlers = {} THEN {"stderr"}
    ELSE {Destination(h) : h \in handlers}

Emit(lv) ==
    IF lv < rootLevel THEN {}
    ELSE IF handlers = {}
         THEN (IF lv >= WARNING THEN {"stderr"} ELSE {})
         ELSE {Destination(h) : h \in {g \in handlers : lv >= g.level}}

\* ------------------------------------------------- LoggerManager.initialize
\* line 72: if self._initialized
AlreadyInitialized_Never == FALSE

AlreadyInitialized == initialized

\* lines 72 and 77-80: the check, and the merged dict when it fails.
InitializeCheck(t, a) ==
    /\ instance # 0
    /\ CanCall(t)
    /\ StartCall(t, "initialize", "")
    /\ args' = [args EXCEPT ![t] = a]
    /\ warned' = [warned EXCEPT ![t] = {}]
    /\ IF AlreadyInitialized
       THEN /\ pc' = [pc EXCEPT ![t] = "init_warn"]
            /\ UNCHANGED cfg
       ELSE /\ cfg' = [cfg EXCEPT ![t] = MergeConfig(a.config, a.kwargs)]
            /\ pc' = [pc EXCEPT ![t] = "init_store"]
    /\ UNCHANGED <<classVars, lock, mgrVars, lvl, setups, lastHit, fn>>

\* lines 73-74: the warning on the root logger, and the return.
InitWarn(t) ==
    /\ pc[t] = "init_warn"
    /\ warned' = [warned EXCEPT ![t] = Emit(WARNING)]
    /\ args' = [args EXCEPT ![t] = NoArgs]
    /\ ret' = [ret EXCEPT ![t] = "skipped"]
    /\ pc' = [pc EXCEPT ![t] = "idle"]
    /\ UNCHANGED <<classVars, lock, mgrVars, localVars, op, arg, retval, sawInit,
                   dirRes, sinkRes, ghostVars>>

\* line 81: self._final_config = final_config
InitStore(t) ==
    /\ pc[t] = "init_store"
    /\ final_config' = Some(cfg[t])
    /\ fcOwner' = t
    /\ args' = [args EXCEPT ![t] = NoArgs]
    /\ pc' = [pc EXCEPT ![t] = "setup_dir"]
    /\ UNCHANGED <<classVars, lock, initialized, log_dir, formatter, rootVars, uv,
                   localVars, op, arg, retval, sawInit, warned, ret, dirRes, sinkRes,
                   ghostVars>>

\* ------------------------------------------------- _setup_logging_internal
\* The mkdir failures the environment may show one run of
\* _create_log_directory: the first k paths of the chain cannot be created.
FailPrefixes == {0, 4, 5}

Chain(c) ==
    LET root == ResolveProjectRoot(c.project_root)
    IN  Append(DirsToTry(ResolveLogDir(c.log_dir, root), root), FallbackTemp)

BadDirs(c) == {{Chain(c)[i] : i \in 1..k} : k \in FailPrefixes}

\* lines 107-116: the level, the project root (written back into the dict),
\* the log directory. The RuntimeError of _create_log_directory leaves the
\* routine and the caller; a with block it crosses releases the lock.
\* The lock when an exception leaves the routine: a with block it crosses
\* (line 96) releases the lock its thread holds.
LockAfterRaise_Held(t) == lock

LockAfterRaise(t) == IF lock = t THEN NoThread ELSE lock

\* lines 77 and 99: the dict handed to the setup routine is a copy, never
\* the DEFAULT_CONFIG object itself.
ConfigIsDefaults_Lazy(t) == op[t] # "initialize"

ConfigIsDefaults(t) == FALSE

SetupDir(t, bad) ==
    /\ pc[t] = "setup_dir"
    /\ LET c == cfg[t]
           root == ResolveProjectRoot(c.project_root)
           res == CreateLogDirectory(ResolveLogDir(c.log_dir, root), root, bad)
           c2 == [c EXCEPT !.project_root = Some(root)]
       IN  /\ final_config' = IF fcOwner = t THEN Some(c2) ELSE final_config
           /\ defaults' = IF ConfigIsDefaults(t) THEN c2 ELSE defaults
           /\ dirRes' = [dirRes EXCEPT ![t] = res]
           /\ IF res.raised
              THEN /\ ret' = [ret EXCEPT ![t] = "raised"]
                   /\ pc' = [pc EXCEPT ![t] = "idle"]
                   /\ lock' = LockAfterRaise(t)
                   /\ EndLocals(t)
                   /\ UNCHANGED <<log_dir, lastHit>>
              ELSE /\ log_dir' = Some(res.dir)
                   /\ lastHit' = res.hit
                   /\ lvl' = [lvl EXCEPT ![t] = GetLogLevel(c.log_level).level]
                   /\ cfg' = [cfg EXCEPT ![t] = c2]
                   /\ pc' = [pc EXCEPT ![t] = "setup_level"]
                   /\ UNCHANGED <<ret, lock, fcOwner>>
    /\ UNCHANGED <<instance, nInstances, initialized, formatter, rootVars, uv, callVars, sinkRes,
                   setups, ncalls, fn>>

\* line 120: root_logger.setLevel(log_level)
SetupLevel(t) ==
    /\ pc[t] = "setup_level"
    /\ rootLevel' = lvl[t]
    /\ pc' = [pc EXCEPT ![t] = "setup_clear"]
    /\ UNCHANGED <<classVars, lock, initialized, attrVars, fcOwner, handlers, closed, uv,
                   localVars, callVars, ret, dirRes, sinkRes, ghostVars>>

\* line 122 left out: the root keeps the handlers it had.
SetupClear_Skip(t) ==
    /\ pc[t] = "setup_clear"
    /\ pc' = [pc EXCEPT ![t] = "setup_fmt"]
    /\ UNCHANGED <<classVars, lock, initialized, attrVars, fcOwner, rootVars, uv,
                   localVars, callVars, ret, dirRes, sinkRes, ghostVars>>

\* line 122, _clear_handlers: every handler removed and closed.
SetupClear(t) ==
    /\ pc[t] = "setup_clear"
    /\ handlers' = {}
    /\ closed' = closed \cup handlers
    /\ pc' = [pc EXCEPT ![t] = "setup_fmt"]
    /\ UNCHANGED <<classVars, lock, initialized, attrVars, fcOwner, rootLevel, uv,
                   localVars, callVars, ret, dirRes, sinkRes, ghostVars>>

\* lines 124-127: self._formatter
SetupFormatter(t) ==
    /\ pc[t] = "setup_fmt"
    /\ formatter' = Some([fmt |-> cfg[t].format, datefmt |-> cfg[t].date_format])
    /\ pc' = [pc EXCEPT ![t] = "setup_file"]
    /\ UNCHANGED <<classVars, lock, initialized, final_config, log_dir, fcOwner,
                   rootVars, uv, localVars, callVars, ret, dirRes, sinkRes, ghostVars>>

\* _add_file_handler: the handlers it attaches. outcome is "ok" (the primary
\* file opens), "temp" (it raises OSError and the temporary file opens) or
\* "none" (both fail).
FileOutcomes == {"ok", "temp", "none"}

\* _add_file_handler with the primary handler left attached when the
\* temporary one is.
AddFileHandler_KeepsBoth(t, outcome) ==
    IF outcome = "none" THEN {}
    ELSE {[owner |-> t, kind |-> "file", level |-> lvl[t], dir |-> log_dir[1],
           temp |-> b] : b \in (IF outcome = "temp" THEN BOOLEAN ELSE {FALSE})}

AddFileHandler(t, outcome) ==
    IF outcome = "none" THEN {}
    ELSE {[owner |-> t, kind |-> "file", level |-> lvl[t], dir |-> log_dir[1],
           temp |-> (outcome = "temp")]}

\* _add_console_handler
AddConsoleHandler(t, ok) ==
    IF ok
    THEN {[owner |-> t, kind |-> "console", level |-> lvl[t], dir |-> <<>>, temp |-> FALSE]}
    ELSE {}

\* lines 130-138
SetupFile(t, outcome) ==
    /\ pc[t] = "setup_file"
    /\ handlers' = IF cfg[t].log_filename # ""
                   THEN handlers \cup AddFileHandler(t, outcome)
                   ELSE handlers
    /\ sinkRes' = [sinkRes EXCEPT ![t].file =
                      IF cfg[t].log_filename # "" THEN outcome ELSE "skip"]
    /\ pc' = [pc EXCEPT ![t] = "setup_console"]
    /\ UNCHANGED <<classVars, lock, initialized, attrVars, fcOwner, rootLevel, closed,
                   uv, localVars, callVars, ret, dirRes, ghostVars>>

\* lines 141-142, and the return to initialize or _ensure_initialized.
SetupConsole(t, ok) ==
    /\ pc[t] = "setup_console"
    /\ handlers' = IF cfg[t].console_output
                   THEN handlers \cup AddConsoleHandler(t, ok)
                   ELSE handlers
    /\ sinkRes' = [sinkRes EXCEPT ![t].console =
                      IF ~cfg[t].console_output THEN "skip"
                      ELSE IF ok THEN "ok" ELSE "fail"]
    /\ setups' = setups + 1
    /\ pc' = [pc EXCEPT ![t] = IF op[t] = "initialize" THEN "init_flag" ELSE "ens_flag"]
    /\ UNCHANGED <<classVars, lock, initialized, attrVars, fcOwner, rootLevel, closed,
                   uv, localVars, callVars, ret, dirRes, lastHit, ncalls, fn>>

\* line 90 without its condition: the adapter runs after every explicit
\* initialization.
WantsAdapter_Always(t) == TRUE

\* line 90: final_config.get("configure_uvicorn_logging_runtime", False)
WantsAdapter(t) == cfg[t].configure_uvicorn_logging_runtime

\* lines 84-90 with the flag cleared instead of set.
InitFlag_Clears(t) ==
    /\ pc[t] = "init_flag"
    /\ initialized' = FALSE
    /\ IF WantsAdapter(t)
       THEN /\ pc' = [pc EXCEPT ![t] = "init_adapter"]
            /\ UNCHANGED <<ret, dirRes, sinkRes, cfg, lvl, fcOwner>>
       ELSE /\ pc' = [pc EXCEPT ![t] = "idle"]
            /\ ret' = [ret EXCEPT ![t] = "ok"]
            /\ dirRes' = [dirRes EXCEPT ![t] = NoDirRes]
            /\ sinkRes' = [sinkRes EXCEPT ![t] = NoSinkRes]
            /\ EndLocals(t)
    /\ UNCHANGED <<classVars, lock, attrVars, rootVars, uv, callVars, ghostVars>>

\* lines 84-90: the flag, the info record, the adapter or the return.
InitFlag(t) ==
    /\ pc[t] = "init_flag"
    /\ initialized' = TRUE
    /\ IF WantsAdapter(t)
       THEN /\ pc' = [pc EXCEPT ![t] = "init_adapter"]
            /\ UNCHANGED <<ret, dirRes, sinkRes, cfg, lvl, fcOwner>>
       ELSE /\ pc' = [pc EXCEPT ![t] = "idle"]
            /\ ret' = [ret EXCEPT ![t] = "ok"]
            /\ dirRes' = [dirRes EXCEPT ![t] = NoDirRes]
            /\ sinkRes' = [sinkRes EXCEPT ![t] = NoSinkRes]
            /\ EndLocals(t)
    /\ UNCHANGED <<classVars, lock, attrVars, rootVars, uv, callVars, ghostVars>>

\* _configure_uvicorn_logging_runtime: nothing without a stored config and
\* formatter or when uvicorn cannot be imported; else each uvicorn logger in
\* turn is cleared and gets the level, a console handler, a file handler
\* (unless its construction fails: `failing`, caught at line 322) and
\* propagate = True. An error outside the inner try (errAt: the console
\* handler's construction for that logger, line 298) ends the loop there and
\* is caught at line 338: the loggers before it are configured, that one is
\* cleared and has its level, the ones after it are untouched.
AdapterFailures == {{}, {"uvicorn.error"}}

AdapterErrors == {"", "uvicorn.error"}

UvicornIndex(n) == CHOOSE i \in 1..Len(UvicornOrder) : UvicornOrder[i] = n

ConfigureUvicorn(importOk, failing, errAt) ==
    IF final_config = NoneV \/ formatter = NoneV \/ ~importOk THEN uv
    ELSE LET fc == final_config[1]
             ulvl == GetLogLevel(fc.uvicorn_log_level_runtime).level
             stop == IF errAt \in UvicornNames /\ fc.console_output
                     THEN UvicornIndex(errAt)
                     ELSE Len(UvicornOrder) + 1
         IN  [n \in UvicornNames |->
                IF UvicornIndex(n) < stop
                THEN [handlers |->
                         (IF fc.console_output THEN {"console"} ELSE {})
                         \cup (IF fc.log_filename # "" /\ n \notin failing
                               THEN {"file"} ELSE {}),
                      level |-> ulvl,
                      propagate |-> TRUE]
                ELSE IF UvicornIndex(n) = stop
                THEN [handlers |-> {}, level |-> ulvl, propagate |-> uv[n].propagate]
                ELSE uv[n]]

\* line 91: the adapter catches what goes wrong in it (lines 322, 334, 338)
\* and initialize returns.
InitAdapter(t, importOk, failing, errAt) ==
    /\ pc[t] = "init_adapter"
    /\ uv' = ConfigureUvicorn(importOk, failing, errAt)
    /\ pc' = [pc EXCEPT ![t] = "idle"]
    /\ ret' = [ret EXCEPT ![t] = "ok"]
    /\ dirRes' = [dirRes EXCEPT ![t] = NoDirRes]
    /\ sinkRes' = [sinkRes EXCEPT ![t] = NoSinkRes]
    /\ EndLocals(t)
    /\ UNCHANGED <<classVars, lock, initialized, attrVars, rootVars, callVars,
                   ghostVars>>

\* ------------------------------------------------------ _ensure_initialized
\* line 95: if not self._initialized
EnsureNeeded_Never == FALSE

EnsureNeeded == ~initialized

\* The start of get_logger, get_log_path or get_uvicorn_log_config: the
\* unlocked check of _ensure_initialized.
EnsureCheck(t, name, a) ==
    /\ instance # 0
    /\ CanCall(t)
    /\ StartCall(t, name, a)
    /\ UNCHANGED args
    /\ warned' = [warned EXCEPT ![t] = {}]
    /\ pc' = [pc EXCEPT ![t] = IF EnsureNeeded THEN "ens_lock" ELSE "op_ret"]
    /\ UNCHANGED <<classVars, lock, mgrVars, localVars, setups, lastHit, fn>>

GetLoggerCall(t, name) == EnsureCheck(t, "get_logger", name)

GetLogPathCall(t) == EnsureCheck(t, "get_log_path", "")

GetUvicornLogConfigCall(t) == EnsureCheck(t, "get_uvicorn_log_config", "")

\* line 96: with self._lock
EnsureLock(t) ==
    /\ pc[t] = "ens_lock"
    /\ lock = NoThread
    /\ lock' = t
    /\ pc' = [pc EXCEPT ![t] = "ens_recheck"]
    /\ UNCHANGED <<classVars, mgrVars, localVars, callVars, ret, dirRes, sinkRes, ghostVars>>

\* lines 97-99: the check repeated inside the lock; DEFAULT_CONFIG.copy()
EnsureRecheck(t) ==
    /\ pc[t] = "ens_recheck"
    /\ IF ~initialized
       THEN /\ cfg' = [cfg EXCEPT ![t] = defaults]
            /\ pc' = [pc EXCEPT ![t] = "setup_dir"]
       ELSE /\ pc' = [pc EXCEPT ![t] = "ens_unlock"]
            /\ UNCHANGED cfg
    /\ UNCHANGED <<classVars, lock, mgrVars, lvl, callVars, ret, dirRes, sinkRes, ghostVars>>

\* lines 100-103: the flag and the debug record
EnsureFlag(t) ==
    /\ pc[t] = "ens_flag"
    /\ initialized' = TRUE
    /\ pc' = [pc EXCEPT ![t] = "ens_unlock"]
    /\ UNCHANGED <<classVars, lock, attrVars, fcOwner, rootVars, uv, localVars,
                   callVars, ret, dirRes, sinkRes, ghostVars>>

\* the end of the with block
EnsureUnlock(t) ==
    /\ pc[t] = "ens_unlock"
    /\ lock' = NoThread
    /\ pc' = [pc EXCEPT ![t] = "op_ret"]
    /\ UNCHANGED <<classVars, mgrVars, localVars, callVars, ret, dirRes, sinkRes, ghostVars>>

\* ------------------------------------------------------------- the returns
Return(t, v) ==
    /\ pc[t] = "op_ret"
    /\ retval' = [retval EXCEPT ![t] = v]
    /\ ret' = [ret EXCEPT ![t] = "ok"]
    /\ pc' = [pc EXCEPT ![t] = "idle"]
    /\ dirRes' = [dirRes EXCEPT ![t] = NoDirRes]
    /\ sinkRes' = [sinkRes EXCEPT ![t] = NoSinkRes]
    /\ EndLocals(t)
    /\ UNCHANGED <<classVars, lock, initialized, attrVars, rootVars, uv, op, arg, args,
                   sawInit, warned, ghostVars>>

\* line 349: logging.getLogger(name), the logger of that name
GetLoggerReturn(t) ==
    /\ op[t] = "get_logger"
    /\ Return(t, <<arg[t]>>)

\* line 360: getattr(self, "log_dir", Path.cwd())
GetLogPathValue_Cwd == Cwd

GetLogPathValue == IF log_dir # NoneV THEN log_dir[1] ELSE Cwd

GetLogPathReturn(t) ==
    /\ op[t] = "get_log_path"
    /\ Return(t, GetLogPathValue)

\* The dict of lines 381-430 for a formatter f.
LogConfigFor(f) ==
        [ version |-> 1,
          disable_existing_loggers |-> FALSE,
          formatters |-> [custom |-> [fmt |-> f.fmt, datefmt |-> f.datefmt]],
          handlers |-> [default |-> [formatter |-> "custom",
                                     class |-> "logging.StreamHandler",
                                     stream |-> "ext://sys.stderr"]],
          loggers |-> [n \in {""} \cup UvicornNames |->
                         IF n = ""
                         THEN [handlers |-> {"default"}, level |-> "INFO"]
                         ELSE [handlers |-> {"default"}, level |-> "INFO",
                               propagate |-> FALSE]] ]

\* The dict built from the templates of DEFAULT_CONFIG whatever the
\* manager's formatter is.
UvicornLogConfig_DefaultTemplates ==
    LogConfigFor([fmt |-> FMT, datefmt |-> DATEFMT])

\* lines 370-431: the manager's formatter, or one of the default templates
\* when the attribute is missing or None, and the dict built from it.
UvicornLogConfig ==
    LogConfigFor(IF formatter = NoneV THEN [fmt |-> FMT, datefmt |-> DATEFMT]
                 ELSE formatter[1])

GetUvicornLogConfigReturn(t) ==
    /\ op[t] = "get_uvicorn_log_config"
    /\ Return(t, <<UvicornLogConfig>>)

\* ---------------------------------------------------------- specification
Next ==
    \E t \in Threads :
        \/ NewCheck(t)
        \/ NewLock(t)
        \/ NewCreate(t)
        \/ NewUnlock(t)
        \/ NewReturn(t)
        \/ \E a \in InitArgs : InitializeCheck(t, a)
        \/ InitWarn(t)
        \/ InitStore(t)
        \/ \E bad \in BadDirs(cfg[t]) : SetupDir(t, bad)
        \/ SetupLevel(t)
        \/ SetupClear(t)
        \/ SetupFormatter(t)
        \/ \E outcome \in FileOutcomes : SetupFile(t, outcome)
        \/ \E ok \in BOOLEAN : SetupConsole(t, ok)
        \/ InitFlag(t)
        \/ \E importOk \in BOOLEAN, failing \in AdapterFailures, errAt \in AdapterErrors :
               InitAdapter(t, importOk, failing, errAt)
        \/ \E name \in LoggerNames : GetLoggerCall(t, name)
        \/ GetLogPathCall(t)
        \/ GetUvicornLogConfigCall(t)
        \/ EnsureLock(t)
        \/ EnsureRecheck(t)
        \/ EnsureFlag(t)
        \/ EnsureUnlock(t)
        \/ GetLoggerReturn(t)
        \/ GetLogPathReturn(t)
        \/ GetUvicornLogConfigReturn(t)

Spec == Init /\ [][Next]_vars

\* The steps of a call thread t has started (everything but the entry of a
\* new call), in an environment where a directory chain either works at
\* once or fails throughout and the sinks and the uvicorn import work: what
\* the sinks meet has no part in who waits for whom.
Continue(t) ==
    \/ NewLock(t)
    \/ NewCreate(t)
    \/ NewUnlock(t)
    \/ NewReturn(t)
    \/ InitWarn(t)
    \/ InitStore(t)
    \/ \E bad \in {{}, {Chain(cfg[t])[i] : i \in 1..5}} : SetupDir(t, bad)
    \/ SetupLevel(t)
    \/ SetupClear(t)
    \/ SetupFormatter(t)
    \/ SetupFile(t, "ok")
    \/ SetupConsole(t, TRUE)
    \/ InitFlag(t)
    \/ InitAdapter(t, TRUE, {}, "")
    \/ EnsureLock(t)
    \/ EnsureRecheck(t)
    \/ EnsureFlag(t)
    \/ EnsureUnlock(t)
    \/ GetLoggerReturn(t)
    \/ GetLogPathReturn(t)
    \/ GetUvicornLogConfigReturn(t)

\* The entry of a new call.
Enter(t) ==
    \/ NewCheck(t)
    \/ \E a \in InitArgs : InitializeCheck(t, a)
    \/ GetLoggerCall(t, "app")
    \/ GetLogPathCall(t)
    \/ GetUvicornLogConfigCall(t)

FairNext == \E t \in Threads : Enter(t) \/ Continue(t)

\* Every thread that can take a step of its call eventually takes one.
FairSpec == Init /\ [][FairNext]_vars /\ \A t \in Threads : WF_vars(Continue(t))

\* The (config, kwargs) pairs of the callers that use the uvicorn adapter:
\* those of InitArgs, the defaults with the adapter on (a file sink and a
\* console sink), and the adapter asked for by keyword with the console off.
AdapterArgs ==
    InitArgs \cup
    { [config |-> [configure_uvicorn_logging_runtime |-> TRUE], kwargs |-> EmptyDict],
      [config |-> [console_output |-> FALSE],
       kwargs |-> [configure_uvicorn_logging_runtime |-> TRUE]] }

\* initialize and get_logger calls with every outcome of the adapter and of
\* the sinks' construction, and a directory chain that works at once or
\* fails throughout.
AdapterNext ==
    \E t \in Threads :
        \/ \E a \in AdapterArgs : InitializeCheck(t, a)
        \/ InitWarn(t)
        \/ InitStore(t)
        \/ \E bad \in {{}, {Chain(cfg[t])[i] : i \in 1..5}} : SetupDir(t, bad)
        \/ SetupLevel(t)
        \/ SetupClear(t)
        \/ SetupFormatter(t)
        \/ \E outcome \in FileOutcomes : SetupFile(t, outcome)
        \/ \E ok \in BOOLEAN : SetupConsole(t, ok)
        \/ InitFlag(t)
        \/ \E importOk \in BOOLEAN, failing \in AdapterFailures, errAt \in AdapterErrors :
               InitAdapter(t, importOk, failing, errAt)
        \/ GetLoggerCall(t, "app")
        \/ EnsureLock(t)
        \/ EnsureRecheck(t)
        \/ EnsureFlag(t)
        \/ EnsureUnlock(t)
        \/ GetLoggerReturn(t)

SpecAdapter == Init /\ [][AdapterNext]_vars

\* ----------------------------------------------- the helpers on their own
\* str.lower() on one character.
LowerChar(c) ==
    IF \E i \in 1..Len(Uppers) : Uppers[i] = c
    THEN Lowers[CHOOSE i \in 1..Len(Uppers) : Uppers[i] = c]
    ELSE c

\* Every spelling of a name in capitals and small letters.
RECURSIVE Spellings(_)
Spellings(u) ==
    IF u = <<>> THEN {<<>>}
    ELSE {<<c>> \o r : c \in {u[1], LowerChar(u[1])}, r \in Spellings(Tail(u))}

\* The strings handed to _get_log_level: the five names in every spelling,
\* and names that are none of them.
LevelInputs ==
    UNION {Spellings(k) : k \in LevelKeys}
    \cup { <<>>,
           <<"i","n","v","a","l","i","d">>,
           <<"I","N","F">>,
           <<"I","N","F","O","S">>,
           <<" ","I","N","F","O">>,
           <<"w","a","r","n">>,
           <<"T","R","A","C","E">>,
           <<"2","0">> }

\* manager._get_log_level(level_str), as the tests call it
GetLogLevelCall(s) ==
    /\ fn' = [op |-> "_get_log_level", level_str |-> s, out |-> GetLogLevel(s)]
    /\ UNCHANGED <<classVars, lock, mgrVars, pc, localVars, callVars, ret, dirRes, sinkRes,
                   setups, lastHit, ncalls>>

LevelNext == \E s \in LevelInputs : GetLogLevelCall(s)

SpecLevel == Init /\ [][LevelNext]_vars

\* The overrides and project roots handed to _resolve_log_dir and
\* _create_log_directory.
LogDirInputs ==
    { NoneV, Some(<<"custom">>), Some(<<"..", "shared">>), Some(<<"logs">>),
      Some(<<"/", "var", "log">>) }

ProjectRootInputs == { NoneV, Some(<<"/", "srv", "app">>), Some(<<"rel">>) }

\* _resolve_project_root, _resolve_log_dir and _create_log_directory as
\* lines 111-116 chain them, under any set of paths that cannot be created.
CreateLogDirectoryCall(ld, pr, bad) ==
    LET root == ResolveProjectRoot(pr)
        log_d == ResolveLogDir(ld, root)
    IN  /\ fn' = [op |-> "_create_log_directory", override |-> ld, root |-> root,
                  log_dir |-> log_d, bad |-> bad,
                  out |-> CreateLogDirectory(log_d, root, bad)]
        /\ UNCHANGED <<classVars, lock, mgrVars, pc, localVars, callVars, ret,
                       dirRes, sinkRes, setups, lastHit, ncalls>>

AllCandidates(ld, pr) ==
    LET root == ResolveProjectRoot(pr)
        dirs == DirsToTry(ResolveLogDir(ld, root), root)
    IN  {dirs[i] : i \in 1..Len(dirs)} \cup {FallbackTemp}

DirNext ==
    \E ld \in LogDirInputs, pr \in ProjectRootInputs :
        \E bad \in SUBSET AllCandidates(ld, pr) : CreateLogDirectoryCall(ld, pr, bad)

SpecDir == Init /\ [][DirNext]_vars

\* ------------------------------------------------------------- the claims
Inside(t) == pc[t] # "idle"

SetupPcs == {"setup_dir", "setup_level", "setup_clear", "setup_fmt", "setup_file",
             "setup_console"}

\* C1: on a manager that starts uninitialized the setup routine
\* (_setup_logging_internal) runs to its end at most once, whatever threads
\* call initialize, get_logger, get_log_path or get_uvicorn_log_config.
C1_SetupRunsOnce == setups <= 1

C3_SingletonIdentity ==
    /\ nInstances <= 1
    /\ \A t \in Threads :
          (op[t] = "new" /\ ret[t] = "ok") => (instance # 0 /\ retval[t] = <<instance>>)
    /\ \A t, u \in Threads :
          (op[t] = "new" /\ ret[t] = "ok" /\ op[u] = "new" /\ ret[u] = "ok")
          => retval[t] = retval[u]

\* C3 witness: two threads saw the empty slot; one has created the object
\* inside the lock, the other still waits for the lock.
C3_Witness ==
    \E t, u \in Threads :
        /\ t # u
        /\ pc[t] = "new_unlock" /\ pc[u] = "new_lock"
        /\ instance # 0

\* No initialize call has stored a configuration or is under way.
NoConfigure ==
    /\ final_config = NoneV
    /\ \A u \in Threads : ~(op[u] = "initialize" /\ Inside(u))

\* The directories the fallback chain creates under the default config.
DefaultDirs ==
    {Resolve(Chain(DefaultConfig)[i]) : i \in 1..Len(Chain(DefaultConfig))}

\* C4: with no configure before it, a get_logger or get_log_path call that
\* returns leaves the manager initialized by the one default setup (root
\* level INFO, default formatter, sinks of the default config in the
\* directory the chain created); get_logger returns the logger of the name
\* asked for and get_log_path that directory, never the working directory.
C4_LazyAutoInit ==
    \A t \in Threads :
        (op[t] \in {"get_logger", "get_log_path"} /\ ret[t] = "ok" /\ NoConfigure)
        => /\ initialized
           /\ setups = 1
           /\ rootLevel = INFO
           /\ formatter = Some([fmt |-> FMT, datefmt |-> DATEFMT])
           /\ log_dir # NoneV /\ log_dir[1] \in DefaultDirs /\ lastHit > 0
           /\ \A h \in handlers :
                 /\ h.level = INFO /\ h.kind \in {"file", "console"}
                 /\ h.kind = "file" => h.dir = log_dir[1]
           /\ op[t] = "get_logger" => retval[t] = <<arg[t]>>
           /\ op[t] = "get_log_path" => (retval[t] = log_dir[1] /\ retval[t] # Cwd)

\* C4 witness: a get_log_path call that found the manager uninitialized has
\* returned the directory it created.
C4_Witness ==
    \E t \in Threads :
        /\ op[t] = "get_log_path" /\ ret[t] = "ok" /\ ~sawInit[t]
        /\ NoConfigure /\ retval[t] = log_dir[1]

\* Every path of a _create_log_directory result was tried and failed.
AllFailed(r) == \A i \in 1..Len(r.tried) : r.tried[i] \in r.bad

\* C5: get_logger never fails: no get_logger call ends by raising, in any
\* manager state and for any outcome of the directory creation and the sink
\* construction of the initialization it may run.
C5_GetLoggerNeverRaises ==
    \A t \in Threads : op[t] = "get_logger" => ret[t] # "raised"

\* The five directories of the fallback chain that starts at first, for the
\* resolved project root.
ChainOf(first, root) ==
    << first,
       root \o <<"logs">>,
       Home \o <<".logs", root[Len(root)]>>,
       TempDir \o <<root[Len(root)], "logs">>,
       TempDir \o <<"app_logs">> >>

\* A path without its last component.
Parent(p) == SubSeq(p, 1, Len(p) - 1)

C7_FallbackOrder ==
    fn.op = "_create_log_directory" =>
        LET chain == ChainOf(fn.log_dir, fn.root)
            good == {i \in 1..5 : chain[i] \notin fn.bad}
        IN  /\ \A i \in good :
                  (\A j \in good : i <= j) =>
                      /\ ~fn.out.raised
                      /\ fn.out.hit = i
                      /\ fn.out.dir = Resolve(chain[i])
                      /\ fn.out.tried = SubSeq(chain, 1, i)
            /\ good = {} => (fn.out.raised /\ fn.out.tried = chain)

\* C7 witness: the first two candidates failed, the third and a later one
\* could be created, and the third was returned.
C7_Witness ==
    /\ fn.op = "_create_log_directory"
    /\ fn.out.hit = 3
    /\ fn.out.tried[1] # fn.out.tried[2]
    /\ TempDir \o <<"app_logs">> \notin fn.bad
    /\ fn.override # NoneV

\* The two calls of the sequential use C8 is about: an initialize that set
\* the manager up in its preferred directory, then a get_log_path.
InitThenGetLogPath(u, t) ==
    /\ ncalls = 2 /\ u # t
    /\ op[u] = "initialize" /\ ret[u] = "ok"
    /\ op[t] = "get_log_path" /\ ret[t] = "ok" /\ sawInit[t]
    /\ lastHit = 1

\* What _resolve_log_dir returned for the stored configuration (whose
\* project_root the setup replaced by the resolved root).
StoredResolved ==
    ResolveLogDir(final_config[1].log_dir, final_config[1].project_root[1])

\* C8 as stated: after a successful initialize whose preferred directory
\* could be created, get_log_path() equals what _resolve_log_dir returned.
C8_LogPathIsResolvedDir ==
    \A u, t \in Threads : InitThenGetLogPath(u, t) => retval[t] = StoredResolved

\* C8 amended: _resolve_log_dir returns project_root/logs without an
\* override, project_root/override for a relative one and the override for
\* an absolute one; after a successful initialize whose preferred directory
\* could be created, get_log_path() is the canonical form (Path.resolve():
\* ".." collapsed) of that directory, and is that directory when it has no
\* ".." component.
C8_LogPathIsCanonicalResolvedDir ==
    /\ \A t \in Threads :
          (op[t] = "initialize" /\ pc[t] \in SetupPcs \ {"setup_dir"}) =>
              LET root == cfg[t].project_root[1]
                  ld == cfg[t].log_dir
                  resolved == dirRes[t].tried[1]
              IN  /\ ld = NoneV => resolved = root \o <<"logs">>
                  /\ (ld # NoneV /\ ld[1][1] # "/") => resolved = root \o ld[1]
                  /\ (ld # NoneV /\ ld[1][1] = "/") => resolved = ld[1]
    /\ \A u, t \in Threads :
          InitThenGetLogPath(u, t) =>
              /\ retval[t] = Resolve(StoredResolved)
              /\ (\A i \in 1..Len(StoredResolved) : StoredResolved[i] # "..")
                     => retval[t] = StoredResolved

\* C8 witness: initialize with a relative override, then get_log_path.
C8_Witness ==
    \E u, t \in Threads :
        /\ InitThenGetLogPath(u, t)
        /\ final_config[1].log_dir # NoneV
        /\ ~IsAbsolute(final_config[1].log_dir[1])

\* Two names are the same but for the case of their letters.
SameIgnoringCase(a, b) ==
    /\ Len(a) = Len(b)
    /\ \A i \in 1..Len(a) : LowerChar(a[i]) = LowerChar(b[i])

\* The ordinals of the five severities.
Ordinal(k) ==
    CASE k = <<"D","E","B","U","G">> -> 10
      [] k = <<"I","N","F","O">> -> 20
      [] k = <<"W","A","R","N","I","N","G">> -> 30
      [] k = <<"E","R","R","O","R">> -> 40
      [] k = <<"C","R","I","T","I","C","A","L">> -> 50

\* C9: a name that is one of DEBUG, INFO, WARNING, ERROR, CRITICAL but for
\* the case of its letters resolves to that member's ordinal with no
\* diagnostic; every other name resolves to INFO's with exactly one.
C9_LevelResolution ==
    fn.op = "_get_log_level" =>
        LET hits == {k \in LevelKeys : SameIgnoringCase(fn.level_str, k)}
        IN  /\ \A k \in hits : fn.out = [level |-> Ordinal(k), diag |-> 0]
            /\ hits = {} => fn.out = [level |-> Ordinal(S_INFO), diag |-> 1]
            /\ Ordinal(S_DEBUG) < Ordinal(S_INFO) /\ Ordinal(S_INFO) < Ordinal(S_WARNING)
            /\ Ordinal(S_WARNING) < Ordinal(S_ERROR) /\ Ordinal(S_ERROR) < Ordinal(S_CRITICAL)

\* C9 witness: "invalid" resolved to INFO with one diagnostic.
C9_Witness ==
    /\ fn.op = "_get_log_level"
    /\ fn.level_str = <<"i","n","v","a","l","i","d">>
    /\ fn.out.level = INFO /\ fn.out.diag = 1

\* C10: every initialize call on an initialized manager produces the
\* "already initialized" warning on some destination (a sink or standard
\* error), whatever the manager was first initialized with.
C10_AlwaysWarns ==
    \A t \in Threads : (op[t] = "initialize" /\ ret[t] = "skipped") => warned[t] # {}

\* No manager operation is in progress.
Quiescent == \A t \in Threads : pc[t] = "idle"

\* C11: whenever no operation is in progress, the initialization flag is
\* true exactly when the setup routine has attached sinks to the root
\* logger exactly once.
C11_FlagIffAttachedOnce == Quiescent => (initialized <=> setups = 1)

\* C12: once the initialization flag is true no step of any operation,
\* failing ones included, makes it false again.
C12_FlagMonotonic == [][initialized => initialized']_vars

\* C12 witness: the flag is true after a call that failed: an initialize
\* raised for want of a directory while another call initialized the manager.
C12_Witness ==
    /\ initialized
    /\ \E t \in Threads : op[t] = "initialize" /\ ret[t] = "raised"

\* The positions whose next step writes the flag, the root's level or the
\* root's sink set.
WritePcs == {"setup_level", "setup_clear", "setup_file", "setup_console",
             "init_flag", "ens_flag"}

\* C13: a thread about to write the initialization flag or to mutate the
\* root logger's sinks holds the singleton's lock, and no two threads are
\* inside the setup routine at once.
C13_WritesUnderLock ==
    /\ \A t \in Threads : pc[t] \in WritePcs => lock = t
    /\ \A t, u \in Threads :
          (pc[t] \in SetupPcs /\ pc[u] \in SetupPcs) => t = u

\* Thread t's run of the setup routine is the only one so far: no other
\* thread is inside the routine past the directory, and none has completed it.
SoleSetup(t) ==
    /\ setups = 1
    /\ \A u \in Threads \ {t} :
          pc[u] \notin (SetupPcs \ {"setup_dir"}) \cup {"init_flag", "ens_flag"}

\* The root's sinks of one kind.
RootSinks(kind) == {h \in handlers : h.kind = kind}

\* C14: the file sink is the primary file's when it opens, else one on a
\* temporary file in the same resolved directory when that opens, else
\* absent: never more than one; the console sink is attached when enabled and
\* constructible whatever happened to the file sink; no failure of a sink
\* raises, and the call goes on to set the flag.
C14_SinkSoftDegrade ==
    \A t \in Threads :
        /\ ret[t] = "raised" => (dirRes[t].raised /\ sinkRes[t] = NoSinkRes)
        /\ (sinkRes[t].console # "unset" /\ pc[t] \notin {"init_flag", "ens_flag"})
              => (initialized /\ ret[t] = "running")
        /\ (pc[t] \in {"init_flag", "ens_flag"} /\ SoleSetup(t)) =>
              LET file(b) == [owner |-> t, kind |-> "file", level |-> lvl[t],
                              dir |-> dirRes[t].dir, temp |-> b]
              IN  /\ sinkRes[t].file = "ok" => RootSinks("file") = {file(FALSE)}
                  /\ sinkRes[t].file = "temp" => RootSinks("file") = {file(TRUE)}
                  /\ sinkRes[t].file \in {"none", "skip"} => RootSinks("file") = {}
                  /\ Cardinality(RootSinks("file")) <= 1
                  /\ sinkRes[t].console = "ok" =>
                        /\ cfg[t].console_output
                        /\ Cardinality(RootSinks("console")) = 1
                  /\ sinkRes[t].console \in {"fail", "skip"} => RootSinks("console") = {}
                  /\ (cfg[t].console_output <=> sinkRes[t].console # "skip")
                  /\ ret[t] = "running"

\* C14 witness: the primary file failed, the temporary one opened, the
\* console sink could not be built, and the setup completed.
C14_Witness ==
    \E t \in Threads :
        /\ pc[t] = "init_flag" /\ SoleSetup(t)
        /\ sinkRes[t] = [file |-> "temp", console |-> "fail"]
        /\ \E h \in handlers : h.kind = "file" /\ h.temp

\* The shape of a logging dictConfig object: a version, non-empty
\* formatters, handlers and loggers, the root and the three uvicorn loggers
\* among the loggers, and no dangling handler or formatter reference.
WellFormedLogConfig(c) ==
    /\ c.version = 1
    /\ DOMAIN c.formatters # {}
    /\ DOMAIN c.handlers # {}
    /\ {"", "uvicorn", "uvicorn.error", "uvicorn.access"} \subseteq DOMAIN c.loggers
    /\ \A n \in DOMAIN c.loggers : c.loggers[n].handlers \subseteq DOMAIN c.handlers
    /\ \A h \in DOMAIN c.handlers : c.handlers[h].formatter \in DOMAIN c.formatters

\* The manager's own state and the class's.
ManagerState == <<classVars, lock, mgrVars>>

\* C15: a get_uvicorn_log_config call returns with the manager initialized,
\* a well-formed dictConfig object whose formatter entry has the templates
\* of the manager's formatter; building the object changes no manager
\* state, a call on an initialized manager changes none at any step, and
\* two calls return equal objects.
C15_ExternalConfigShape ==
    [][\A t \in Threads :
          /\ (pc[t] = "op_ret" /\ op[t] = "get_uvicorn_log_config" /\ pc'[t] = "idle") =>
                /\ initialized /\ formatter # NoneV
                /\ ret'[t] = "ok"
                /\ WellFormedLogConfig(retval'[t][1])
                /\ retval'[t][1].formatters.custom.fmt = formatter[1].fmt
                /\ retval'[t][1].formatters.custom.datefmt = formatter[1].datefmt
                /\ UNCHANGED ManagerState
          /\ (pc'[t] # pc[t] /\ op'[t] = "get_uvicorn_log_config" /\ sawInit'[t]) =>
                UNCHANGED ManagerState
          /\ \A u \in Threads \ {t} :
                (/\ op'[t] = "get_uvicorn_log_config" /\ ret'[t] = "ok"
                 /\ op'[u] = "get_uvicorn_log_config" /\ ret'[u] = "ok")
                    => retval'[t] = retval'[u]]_vars

\* C15 witness: the object returned on a manager initialized with the
\* caller's templates carries those templates.
C15_Witness ==
    \E t \in Threads :
        /\ op[t] = "get_uvicorn_log_config" /\ ret[t] = "ok" /\ sawInit[t]
        /\ formatter # NoneV /\ formatter[1].fmt # FMT
        /\ retval[t][1].formatters.custom.fmt = formatter[1].fmt

\* The sinks a setup run by thread t attaches for its config when every
\* construction succeeds.
ExpectedSinks(t) ==
    (IF cfg[t].log_filename # ""
     THEN {[owner |-> t, kind |-> "file", level |-> rootLevel,
            dir |-> dirRes[t].dir, temp |-> FALSE]}
     ELSE {})
    \cup
    (IF cfg[t].console_output
     THEN {[owner |-> t, kind |-> "console", level |-> rootLevel,
            dir |-> <<>>, temp |-> FALSE]}
     ELSE {})

\* C16: the clearing step removes every sink the root had and closes it; and
\* when the only setup run so far, having met no sink failure, sets the flag,
\* the root's sinks are exactly one file sink iff the config names a file and
\* one console sink iff it enables the console, none of them closed, and the
\* root's threshold is the severity the config's level name resolves to.
C16_SinksMatchConfig ==
    [][\A t \in Threads :
          /\ (pc[t] = "setup_clear" /\ pc'[t] # pc[t]) =>
                (handlers' = {} /\ handlers \subseteq closed')
          /\ (/\ pc[t] \in {"init_flag", "ens_flag"} /\ pc'[t] # pc[t]
              /\ SoleSetup(t)
              /\ sinkRes[t].file \in {"ok", "skip"}
              /\ sinkRes[t].console \in {"ok", "skip"}) =>
                /\ initialized'
                /\ handlers' = ExpectedSinks(t)
                /\ handlers' \cap closed' = {}
                /\ Cardinality(RootSinks("file")) = (IF cfg[t].log_filename # "" THEN 1 ELSE 0)
                /\ Cardinality(RootSinks("console")) = (IF cfg[t].console_output THEN 1 ELSE 0)
                /\ \A k \in LevelKeys :
                      SameIgnoringCase(cfg[t].log_level, k) => rootLevel' = Ordinal(k)
                /\ (\A k \in LevelKeys : ~SameIgnoringCase(cfg[t].log_level, k))
                      => rootLevel' = Ordinal(S_INFO)]_vars

\* C16 witness: an initialization replaced a sink another library had
\* attached by a file sink and a console sink.
C16_Witness ==
    /\ initialized /\ Quiescent /\ setups = 1
    /\ ForeignHandler \in closed
    /\ Cardinality(RootSinks("file")) = 1 /\ Cardinality(RootSinks("console")) = 1
    /\ Cardinality(handlers) = 2

\* C17: the dict initialize works on has, for every key, the keyword
\* argument's value if given, else the config dict's if given, else the
\* default; and the DEFAULT_CONFIG object always keeps its original content.
C17_ConfigMerge ==
    /\ defaults = DefaultConfig
    /\ \A t \in Threads :
          pc[t] = "init_store" =>
              /\ DOMAIN cfg[t] = DOMAIN DefaultConfig
                                    \cup DOMAIN args[t].config \cup DOMAIN args[t].kwargs
              /\ \A k \in DOMAIN cfg[t] :
                    cfg[t][k] = IF k \in DOMAIN args[t].kwargs THEN args[t].kwargs[k]
                                ELSE IF k \in DOMAIN args[t].config THEN args[t].config[k]
                                ELSE DefaultConfig[k]
    /\ \A t \in Threads :
          (op[t] # "initialize" /\ pc[t] = "setup_dir") => cfg[t] = DefaultConfig

\* C17 witness: initialize was given a level in config and another in
\* kwargs, and a lazy initialization has run its setup on the defaults.
C17_Witness ==
    \E t, u \in Threads :
        /\ pc[t] = "init_store"
        /\ "log_level" \in DOMAIN args[t].config \cap DOMAIN args[t].kwargs
        /\ args[t].config.log_level # args[t].kwargs.log_level
        /\ cfg[t].log_level = args[t].kwargs.log_level
        /\ op[u] = "get_logger" /\ pc[u] = "ens_flag"

\* C18: an initialized manager holds a stored configuration, which after a
\* lazy initialization alone is the default record (with the project root
\* the setup resolved).
C18_ConfigSnapshotHeld ==
    initialized =>
        /\ final_config # NoneV
        /\ (\A u \in Threads : op[u] # "initialize") =>
              \A k \in DOMAIN DefaultConfig \ {"project_root"} :
                  final_config[1][k] = DefaultConfig[k]

\* The positions at which thread t holds the lock.
HoldsLockAt(t) ==
    \/ pc[t] \in {"new_recheck", "new_unlock", "ens_recheck", "ens_flag", "ens_unlock"}
    \/ pc[t] \in SetupPcs /\ op[t] # "initialize"

\* C19: the lock is held by a thread exactly while that thread is inside a
\* with block (so it is free again after a raise, and a holder is never at an
\* acquire), and under weak fairness every call that has started ends, by
\* returning or by raising.
C19_NoBlocking ==
    /\ [](\A t \in Threads : lock = t <=> HoldsLockAt(t))
    /\ [](lock \in Threads \cup {NoThread})
    /\ \A t \in Threads : Inside(t) ~> ~Inside(t)

\* C19 witness: a lazy initialization raised inside the locked region and
\* another thread has taken the lock since.
C19_Witness ==
    \E t, u \in Threads :
        /\ op[t] = "get_logger" /\ ret[t] = "raised" /\ ~Inside(t)
        /\ u # t /\ lock = u

\* C20: once the adapter has configured a uvicorn logger, the logger does
\* not propagate to the root, as get_uvicorn_log_config publishes for it, so
\* a record logged on it reaches the console once.
C20_AdapterNoDuplicates ==
    \A n \in UvicornNames :
        uv[n].level # NOTSET =>
            /\ uv[n].propagate = UvicornLogConfig.loggers[n].propagate
            /\ ~uv[n].propagate

\* C21: a call reaches the adapter only as an initialize that found the
\* manager uninitialized, whose merged dict has the adapter flag set, and
\* with the initialization flag true; only the adapter changes the uvicorn
\* loggers; and whatever the adapter meets (uvicorn not importable, a file
\* handler that cannot be built, an error in its loop) the call returns, the
\* flag stays true, and the root's level, sinks and closed sinks are those
\* of before.
C21_AdapterContained ==
    [][/\ \A t \in Threads :
          /\ (pc'[t] = "init_adapter" /\ pc[t] # "init_adapter") =>
                /\ op[t] = "initialize" /\ ~sawInit[t]
                /\ cfg[t].configure_uvicorn_logging_runtime
                /\ initialized'
          /\ (pc[t] = "init_adapter" /\ pc'[t] # pc[t]) =>
                /\ initialized /\ initialized'
                /\ pc'[t] = "idle" /\ ret'[t] = "ok"
                /\ UNCHANGED <<rootLevel, handlers, closed>>
       /\ uv' # uv =>
              \E t \in Threads :
                 /\ pc[t] = "init_adapter" /\ pc'[t] = "idle"
                 /\ op[t] = "initialize"
                 /\ cfg[t].configure_uvicorn_logging_runtime]_vars

\* C21 witness: initialize has returned after an adapter run in which the
\* file handler of one uvicorn logger could not be built; the manager is
\* initialized and the root has its file sink and its console sink.
C21_Witness ==
    \E t \in Threads :
        /\ op[t] = "initialize" /\ ret[t] = "ok" /\ ~Inside(t)
        /\ initialized /\ setups = 1
        /\ uv["uvicorn"].handlers = {"console", "file"}
        /\ uv["uvicorn.error"].handlers = {"console"}
        /\ Cardinality(RootSinks("file")) = 1 /\ Cardinality(RootSinks("console")) = 1

\* C22: in every reachable state the root logger carries at most one console
\* sink and at most one file sink of the manager's, and no sink attached to
\* the root has been closed.
C22_RootSinksUnique ==
    /\ Cardinality(RootSinks("console")) <= 1
    /\ Cardinality(RootSinks("file")) <= 1
    /\ handlers \cap closed = {}

\* C23: when a call has raised for want of a directory the lock is not its
\* thread's; if it was the only call so far the manager is as it was built:
\* flag false, root level and sinks untouched and none closed, no resolved
\* directory, no formatter, no stored configuration, the lock free; and as
\* long as no setup has completed a later call does a setup of its own
\* rather than skip it.
C23_FailedInitLeavesNoTrace ==
    \A t \in Threads :
        ret[t] = "raised" =>
            /\ lock # t
            /\ (\A u \in Threads \ {t} : op[u] = "none") =>
                  /\ ~initialized
                  /\ rootLevel = WARNING
                  /\ handlers \subseteq {ForeignHandler} /\ closed = {}
                  /\ log_dir = NoneV
                  /\ formatter = NoneV
                  /\ final_config = NoneV
                  /\ lock = NoThread
            /\ \A u \in Threads \ {t} :
                  (setups = 0 /\ Inside(u) /\ op[u] # "new")
                      => pc[u] \notin {"init_warn", "op_ret"}

====
